---- MODULE Spec2Model ----
(***************************************************************************)
(* Marketplace API (src/main.py): the seed endpoint and the three listing  *)
(* endpoints over a document store with the collections product, service   *)
(* and gig.                                                                *)
(*                                                                         *)
(* Python values:                                                          *)
(*   Optional[T]   None is << >>, a supplied value v is << v >>            *)
(*   dict          a function from the set of its keys                     *)
(*   list          a sequence                                              *)
(***************************************************************************)
EXTENDS Integers, Sequences, FiniteSets, TLC

\* ------------------------------------------------------------------ bounds
\* Number of seed requests in flight (each request slot serves one request).
NReq == 2
\* Largest number of seed insertions already applied to the store when the
\* listing endpoints are exercised.
MaxPreloaded == 9

\* ------------------------------------------------------- python primitives
None == << >>

Some(v) == << v >>

\* bool(x) of an Optional[str]: None and "" are both falsy.
Truthy(x) == x # None /\ x[1] # ""

EmptyDict == [x \in {} |-> x]

\* d[k] = v
DictSet(d, k, v) == [x \in (DOMAIN d) \cup {k} |-> IF x = k THEN v ELSE d[x]]

\* d.setdefault(k, v), returning the dict after the call
SetDefault(d, k, v) == IF k \in DOMAIN d THEN d ELSE DictSet(d, k, v)

\* d.pop(k, None), returning the dict after the call
DictPop(d, k) == [x \in (DOMAIN d) \ {k} |-> d[x]]

Colls == {"product", "service", "gig"}

\* ------------------------------------------------------------ query builder
\* {"$regex": q, "$options": "i"}
Regex(q) == ("$regex" :> q[1]) @@ ("$options" :> "i")

\* {field: regex}
Clause(field, regex) == field :> regex

\* Variant of build_search_query that tests q against None only.
build_search_query_emptyq(base, q) ==
    IF q # None
    THEN DictSet(base, "$or", << Clause("title", Regex(q)),
                                 Clause("description", Regex(q)),
                                 Clause("category", Regex(q)),
                                 Clause("tags", Regex(q)) >>)
    ELSE base

build_search_query(base, q) ==
    IF Truthy(q)
    THEN DictSet(base, "$or", << Clause("title", Regex(q)),
                                 Clause("description", Regex(q)),
                                 Clause("category", Regex(q)),
                                 Clause("tags", Regex(q)) >>)
    ELSE base

\* The equality filters shared by the three endpoints: category is tested
\* for truthiness, the boolean flag for "is not None".
EqFilters(category, flagName, flag) ==
    LET q1 == IF Truthy(category)
              THEN DictSet(EmptyDict, "category", category[1])
              ELSE EmptyDict
    IN  IF flag # None THEN DictSet(q1, flagName, flag[1]) ELSE q1

\* Variant of products_query that tests the flag for truthiness.
products_query_truthy_flag(category, curated, q) ==
    LET q1 == IF Truthy(category)
              THEN DictSet(EmptyDict, "category", category[1])
              ELSE EmptyDict
        q2 == IF curated # None /\ curated[1] THEN DictSet(q1, "curated", curated[1]) ELSE q1
    IN  build_search_query(q2, q)

\* list_products, lines 129-134
products_query(category, curated, q) ==
    build_search_query(EqFilters(category, "curated", curated), q)

\* Variant of services_query that assigns a new OR list for provider.
services_query_second_or(category, curated, q) ==
    LET query == build_search_query(EqFilters(category, "curated", curated), q)
    IN  IF Truthy(q)
        THEN DictSet(query, "$or", << Clause("provider", Regex(q)) >>)
        ELSE query

\* list_services, lines 146-156
services_query(category, curated, q) ==
    LET query == build_search_query(EqFilters(category, "curated", curated), q)
    IN  IF Truthy(q)
        THEN LET d == SetDefault(query, "$or", << >>)
             IN  DictSet(d, "$or", Append(d["$or"], Clause("provider", Regex(q))))
        ELSE query

\* Variant of gigs_query that tests the flag for truthiness.
gigs_query_truthy_flag(category, remote, q) ==
    LET q1 == IF Truthy(category)
              THEN DictSet(EmptyDict, "category", category[1])
              ELSE EmptyDict
        q2 == IF remote # None /\ remote[1] THEN DictSet(q1, "remote", remote[1]) ELSE q1
        query == build_search_query(q2, q)
    IN  IF Truthy(q)
        THEN LET d == SetDefault(query, "$or", << >>)
             IN  DictSet(d, "$or", d["$or"] \o << Clause("company", Regex(q)),
                                                  Clause("location", Regex(q)) >>)
        ELSE query

\* list_gigs, lines 168-179
gigs_query(category, remote, q) ==
    LET query == build_search_query(EqFilters(category, "remote", remote), q)
    IN  IF Truthy(q)
        THEN LET d == SetDefault(query, "$or", << >>)
             IN  DictSet(d, "$or", d["$or"] \o << Clause("company", Regex(q)),
                                                  Clause("location", Regex(q)) >>)
        ELSE query

\* --------------------------------------------------------------- seed data
\* Product(...), lines 77-81, with the schema defaults of src/schemas.py
\* (rating is kept as its decimal text).
Product(title, description, price, category, image, tags, curated) ==
    [title |-> title, description |-> description, price |-> price,
     category |-> category, image |-> image, rating |-> "4.5",
     curated |-> curated, tags |-> tags, in_stock |-> TRUE]

Service(title, description, price, category, provider, image, tags, curated) ==
    [title |-> title, description |-> description, price |-> price,
     category |-> category, provider |-> provider, image |-> image,
     rating |-> "4.6", curated |-> curated, tags |-> tags]

Gig(title, description, pay, pay_type, category, company, location, remote, tags) ==
    [title |-> title, description |-> description, pay |-> pay,
     pay_type |-> pay_type, category |-> category, company |-> company,
     location |-> location, remote |-> remote, tags |-> tags]

products ==
    << Product("Minimalist Desk Lamp", "Warm LED lamp with matte finish", 59, "Home",
               "https://images.unsplash.com/photo-1507473885765-e6ed057f782c",
               <<"lighting", "desk">>, TRUE),
       Product("Ergonomic Chair", "Breathable mesh back", 199, "Office",
               "https://images.unsplash.com/photo-1503602642458-232111445657",
               <<"chair", "office">>, TRUE),
       Product("Stoneware Mug", "Hand-thrown, dishwasher safe", 24, "Kitchen",
               "https://images.unsplash.com/photo-1514432324607-a09d9b4aefdd",
               <<"mug", "ceramic">>, TRUE) >>

services ==
    << Service("Brand Design Sprint", "1-week intensive brand refresh", 1200, "Design",
               "Top Studio", "https://images.unsplash.com/photo-1526948128573-703ee1aeb6fa",
               <<"branding", "design">>, TRUE),
       Service("Landing Page Build", "High-converting responsive page", 800, "Development",
               "Web Pro", "https://images.unsplash.com/photo-1498050108023-c5249f4df085",
               <<"web", "react">>, TRUE),
       Service("Product Photography Pack", "15 retouched shots", 450, "Photography",
               "Studio Light", "https://images.unsplash.com/photo-1487412720507-e7ab37603c6f",
               <<"photo", "ecommerce">>, TRUE) >>

gigs ==
    << Gig("Event Photographer", "4-hour evening shoot", 350, "fixed", "Photography",
           "Local Events", "On-site", FALSE, <<"photo", "event">>),
       Gig("Figma to React", "Convert 5 screens", 45, "hourly", "Development",
           "Startup X", None, TRUE, <<"react", "frontend">>),
       Gig("Shopify Setup Assistant", "Configure theme and payments", 30, "hourly",
           "Ecommerce", "Indie Brand", None, TRUE, <<"shopify", "store">>) >>

\* -------------------------------------------------------------------- state
VARIABLES
    db,           \* the store handle: Some("client"), or None when not initialised
    store,        \* collection name -> the documents of the collection, in insertion order
    pc,           \* seed request -> where seed_data stands
    payload,      \* seed request -> its SeedRequest body
    collections,  \* seed request -> the counts it has read
    inserted,     \* seed request -> its per-collection insertion counters
    response,     \* seed request -> what seed_data returned or raised
    request,      \* the last listing request: endpoint and parameters
    query,        \* the predicate built for it
    listed        \* what the listing endpoint returned or raised

vars == << db, store, pc, payload, collections, inserted, response, request, query, listed >>

seedVars == << pc, payload, collections, inserted, response >>

listVars == << request, query, listed >>

Reqs == 1 .. NReq

\* -------------------------------------------------------------------- store
EmptyStore == [c \in Colls |-> {}]

\* insert_one: the document is added to the collection under a fresh
\* identifier (here the pair of the inserting request and its insertion number)
InsertOne(st, c, id, data) ==
    [st EXCEPT ![c] = @ \cup {("_id" :> id) @@ data}]

\* count_documents({})
CountDocuments(st, c) == Cardinality(st[c])

\* The equality part of a predicate: every key but "$or" must be a field of
\* the document with that value.
EqMatches(doc, pred) ==
    \A k \in (DOMAIN pred) \ {"$or"} : k \in DOMAIN doc /\ doc[k] = pred[k]

\* The orders in which a cursor may deliver the documents of D: a collection
\* has no guaranteed order.
Orders(D) ==
    {s \in [1 .. Cardinality(D) -> D] : \A i, j \in DOMAIN s : i # j => s[i] # s[j]}

Take(s, n) == IF Len(s) <= n THEN s ELSE SubSeq(s, 1, n)

\* find(pred).limit(limit): the documents that satisfy the equality
\* constraints; a "$or" of regular expressions is evaluated by the store and
\* keeps any part of them.
Find(st, c, pred, limit) ==
    LET eq == {d \in st[c] : EqMatches(d, pred)}
        kept == IF "$or" \in DOMAIN pred THEN SUBSET eq ELSE {eq}
    IN  UNION {{Take(s, limit) : s \in Orders(D)} : D \in kept}

\* ------------------------------------------------------------- seed_data
NoResponse == [kind |-> "none"]

\* An exception that leaves the handler without passing an except clause.
Unhandled == [kind |-> "exception"]

HTTPException(status_code, detail) ==
    [kind |-> "HTTPException", status_code |-> status_code, detail |-> detail]

Return(body) == [kind |-> "return", body |-> body]

NoCounts == [c \in Colls |-> 0]

NoneInserted == [products |-> 0, services |-> 0, gigs |-> 0]

Total(ins) == ins.products + ins.services + ins.gigs

\* Variant of SkipCondition with all(...) in place of any(...).
SkipCondition_all(force, counts) ==
    ~force /\ \A c \in Colls : counts[c] > 0

\* Variant of SkipCondition that looks at the product count only.
SkipCondition_product_only(force, counts) ==
    ~force /\ counts["product"] > 0

\* not payload.force and any(count > 0 for count in collections.values())
SkipCondition(force, counts) ==
    ~force /\ \E c \in Colls : counts[c] > 0

\* Variant of NextItem whose second loop inserts into "product".
NextItem_wrong_collection(ins) ==
    IF ins.products < Len(products)
    THEN [coll |-> "product", key |-> "products", data |-> products[ins.products + 1]]
    ELSE IF ins.services < Len(services)
    THEN [coll |-> "product", key |-> "services", data |-> services[ins.services + 1]]
    ELSE [coll |-> "gig", key |-> "gigs", data |-> gigs[ins.gigs + 1]]

\* The three loops of lines 95-103: the record the next create_document call
\* inserts, its collection, and the counter the call increments.
NextItem(ins) ==
    IF ins.products < Len(products)
    THEN [coll |-> "product", key |-> "products", data |-> products[ins.products + 1]]
    ELSE IF ins.services < Len(services)
    THEN [coll |-> "service", key |-> "services", data |-> services[ins.services + 1]]
    ELSE [coll |-> "gig", key |-> "gigs", data |-> gigs[ins.gigs + 1]]

LoopsDone(ins) ==
    ins.products = Len(products) /\ ins.services = Len(services) /\ ins.gigs = Len(gigs)

\* POST /seed arrives with body {force: f}; requests are numbered in the
\* order of their arrival
SeedStart(r, f) ==
    /\ pc[r] = "idle"
    /\ \A o \in Reqs : o < r => pc[o] # "idle"
    /\ pc' = [pc EXCEPT ![r] = "count_product"]
    /\ payload' = [payload EXCEPT ![r] = [force |-> f]]
    /\ UNCHANGED << db, store, collections, inserted, response, listVars >>

\* db[c].count_documents({}) if db else 0
Counted(c) == IF db # None THEN CountDocuments(store, c) ELSE 0

\* line 69
CountProduct(r) ==
    /\ pc[r] = "count_product"
    /\ collections' = [collections EXCEPT ![r]["product"] = Counted("product")]
    /\ pc' = [pc EXCEPT ![r] = "count_service"]
    /\ UNCHANGED << db, store, payload, inserted, response, listVars >>

\* line 70
CountService(r) ==
    /\ pc[r] = "count_service"
    /\ collections' = [collections EXCEPT ![r]["service"] = Counted("service")]
    /\ pc' = [pc EXCEPT ![r] = "count_gig"]
    /\ UNCHANGED << db, store, payload, inserted, response, listVars >>

\* line 71 and the test of lines 73-74 on the counts just read: either the
\* "skipped" summary is returned, or the handler goes on to line 93. The counts
\* are not read again once the test has failed, and are no longer kept.
CountGig(r) ==
    /\ pc[r] = "count_gig"
    /\ LET counts == [collections[r] EXCEPT !["gig"] = Counted("gig")]
       IN  IF SkipCondition(payload[r].force, counts)
           THEN /\ collections' = [collections EXCEPT ![r] = counts]
                /\ response' = [response EXCEPT ![r] =
                                   Return([status |-> "skipped",
                                           reason |-> "Collections already contain data",
                                           counts |-> counts])]
                /\ pc' = [pc EXCEPT ![r] = "done"]
                /\ UNCHANGED inserted
           ELSE /\ collections' = [collections EXCEPT ![r] = NoCounts]
                /\ inserted' = [inserted EXCEPT ![r] = NoneInserted]
                /\ pc' = [pc EXCEPT ![r] = "insert"]
                /\ UNCHANGED response
    /\ UNCHANGED << db, store, payload, listVars >>

\* count_documents raises: lines 68-72 stand outside the try block, the
\* exception leaves the handler and the counts read so far go with it
CountFails(r) ==
    /\ pc[r] \in {"count_product", "count_service", "count_gig"}
    /\ db # None
    /\ response' = [response EXCEPT ![r] = Unhandled]
    /\ collections' = [collections EXCEPT ![r] = NoCounts]
    /\ pc' = [pc EXCEPT ![r] = "done"]
    /\ UNCHANGED << db, store, payload, inserted, listVars >>

\* create_document(...) succeeds, the counter is incremented; after the last
\* record of the last loop the summary is returned (line 107)
CreateOk(r) ==
    /\ pc[r] = "insert"
    /\ db # None
    /\ LET item == NextItem(inserted[r])
           ins  == [inserted[r] EXCEPT ![item.key] = @ + 1]
       IN  /\ store' = InsertOne(store, item.coll, << r, Total(ins) >>, item.data)
           /\ inserted' = [inserted EXCEPT ![r] = ins]
           /\ IF LoopsDone(ins)
              THEN /\ response' = [response EXCEPT ![r] =
                                      Return([status |-> "ok", inserted |-> ins])]
                   /\ pc' = [pc EXCEPT ![r] = "done"]
              ELSE UNCHANGED << response, pc >>
    /\ UNCHANGED << db, payload, collections, listVars >>

\* Variant of CreateFails that records the failure and goes on with the loops.
CreateFails_continue(r) ==
    /\ pc[r] = "insert"
    /\ response[r] = NoResponse
    /\ response' = [response EXCEPT ![r] = HTTPException(500, "Seeding failed")]
    /\ UNCHANGED << db, store, pc, payload, collections, inserted, listVars >>

\* create_document(...) raises: lines 104-105
CreateFails(r) ==
    /\ pc[r] = "insert"
    /\ response' = [response EXCEPT ![r] = HTTPException(500, "Seeding failed")]
    /\ pc' = [pc EXCEPT ![r] = "done"]
    /\ UNCHANGED << db, store, payload, collections, inserted, listVars >>

\* ------------------------------------------------------- listing endpoints
\* limit=50, lines 136, 158 and 181
Limit == 50

\* Variant of StripId that pops the key "id".
StripId_other_key(d) == DictPop(d, "id")

\* d.pop("_id", None)
StripId(d) == DictPop(d, "_id")

\* for d in docs: d.pop("_id", None)
StripIds(docs) == [i \in 1 .. Len(docs) |-> StripId(docs[i])]

\* The try block of a listing endpoint: get_documents(c, pred, limit=50)
\* either delivers documents, which are returned without their identifier,
\* or raises (no store handle, or a failing store call), which the except
\* clause turns into HTTPException(500). The endpoints keep nothing between
\* requests and do not write to the store: one listing request is followed.
Listing(c, pred) ==
    /\ listed = NoResponse
    /\ \/ /\ db # None
          /\ \E docs \in Find(store, c, pred, Limit) : listed' = Return(StripIds(docs))
       \/ listed' = HTTPException(500, "get_documents failed")

\* GET /products
list_products(category, curated, q) ==
    /\ request' = [endpoint |-> "products", category |-> category, flag |-> curated, q |-> q]
    /\ query' = products_query(category, curated, q)
    /\ Listing("product", query')
    /\ UNCHANGED << db, store, seedVars >>

\* GET /services
list_services(category, curated, q) ==
    /\ request' = [endpoint |-> "services", category |-> category, flag |-> curated, q |-> q]
    /\ query' = services_query(category, curated, q)
    /\ Listing("service", query')
    /\ UNCHANGED << db, store, seedVars >>

\* GET /gigs
list_gigs(category, remote, q) ==
    /\ request' = [endpoint |-> "gigs", category |-> category, flag |-> remote, q |-> q]
    /\ query' = gigs_query(category, remote, q)
    /\ Listing("gig", query')
    /\ UNCHANGED << db, store, seedVars >>

\* Parameter values of the listing requests: absent, empty and non-empty.
Categories == {None, Some(""), Some("Home"), Some("Photography")}

Flags == {None, Some(TRUE), Some(FALSE)}

Queries == {None, Some(""), Some("x"), Some("Lamp")}

NoRequest == [endpoint |-> "none", category |-> None, flag |-> None, q |-> None]

\* ---------------------------------------------------------- specifications
Init ==
    /\ db \in {Some("client"), None}
    /\ store = EmptyStore
    /\ pc = [r \in Reqs |-> "idle"]
    /\ payload = [r \in Reqs |-> [force |-> FALSE]]
    /\ collections = [r \in Reqs |-> NoCounts]
    /\ inserted = [r \in Reqs |-> NoneInserted]
    /\ response = [r \in Reqs |-> NoResponse]
    /\ request = NoRequest
    /\ query = EmptyDict
    /\ listed = NoResponse

Next ==
    \E r \in Reqs :
        \/ \E f \in BOOLEAN : SeedStart(r, f)
        \/ CountProduct(r)
        \/ CountService(r)
        \/ CountGig(r)
        \/ CountFails(r)
        \/ CreateOk(r)
        \/ CreateFails(r)

Spec == Init /\ [][Next]_vars

\* Seeding with force=false only, from empty collections.
NextNoForce ==
    \E r \in Reqs :
        \/ SeedStart(r, FALSE)
        \/ CountProduct(r)
        \/ CountService(r)
        \/ CountGig(r)
        \/ CountFails(r)
        \/ CreateOk(r)
        \/ CreateFails(r)

SpecNoForce == Init /\ [][NextNoForce]_vars

\* The k-th insertion of a seed request r, in the order of the three loops.
SeedOrder ==
    [k \in 1 .. (Len(products) + Len(services) + Len(gigs)) |->
        IF k <= Len(products) THEN [coll |-> "product", data |-> products[k]]
        ELSE IF k <= Len(products) + Len(services)
        THEN [coll |-> "service", data |-> services[k - Len(products)]]
        ELSE [coll |-> "gig", data |-> gigs[k - Len(products) - Len(services)]]]

\* The store after the first n insertions of consecutive seed requests.
StoreAfter(n) ==
    LET F[i \in 0 .. n] ==
            IF i = 0 THEN EmptyStore
            ELSE LET r == ((i - 1) \div Len(SeedOrder)) + 1
                     k == ((i - 1) % Len(SeedOrder)) + 1
                 IN  InsertOne(F[i - 1], SeedOrder[k].coll, << r, k >>, SeedOrder[k].data)
    IN  F[n]

\* The listing endpoints over a store that seeding has filled, wholly or
\* partly, or that is not initialised.
InitList ==
    /\ \/ db = Some("client") /\ store \in {StoreAfter(n) : n \in 0 .. MaxPreloaded}
       \/ db = None /\ store = EmptyStore
    /\ pc = [r \in Reqs |-> "idle"]
    /\ payload = [r \in Reqs |-> [force |-> FALSE]]
    /\ collections = [r \in Reqs |-> NoCounts]
    /\ inserted = [r \in Reqs |-> NoneInserted]
    /\ response = [r \in Reqs |-> NoResponse]
    /\ request = NoRequest
    /\ query = EmptyDict
    /\ listed = NoResponse

NextList ==
    \E category \in Categories, flag \in Flags, q \in Queries :
        \/ list_products(category, flag, q)
        \/ list_services(category, flag, q)
        \/ list_gigs(category, flag, q)

SpecList == InitList /\ [][NextList]_vars

\* ------------------------------------------------------------- properties
\* The counter of `inserted` that belongs to a collection.
KeyOf(c) == IF c = "product" THEN "products" ELSE IF c = "service" THEN "services" ELSE "gigs"

\* The documents of collection c that request r inserted.
DocsBy(r, c) == {d \in store[c] : d["_id"][1] = r}

Skipped(r) == response[r].kind = "return" /\ response[r].body.status = "skipped"

SeedOk(r) == response[r].kind = "return" /\ response[r].body.status = "ok"

SeedFailed(r) == response[r].kind = "HTTPException"

\* The counts request r has when it reads the last of them.
CountsRead(r) == [collections[r] EXCEPT !["gig"] = Counted("gig")]

C1_Skipped ==
    \A r \in Reqs :
        Skipped(r) =>
            /\ ~payload[r].force
            /\ \E c \in Colls : response[r].body.counts[c] > 0
            /\ response[r].body.counts = collections[r]
            /\ inserted[r] = NoneInserted
            /\ \A c \in Colls : DocsBy(r, c) = {}

C1_Step ==
    \A r \in Reqs :
        /\ (pc[r] = "count_product" /\ pc'[r] = "count_service" /\ db # None)
               => collections'[r]["product"] = Cardinality(store["product"])
        /\ (pc[r] = "count_service" /\ pc'[r] = "count_gig" /\ db # None)
               => collections'[r]["service"] = Cardinality(store["service"])
        /\ ( /\ pc[r] = "count_gig" /\ pc'[r] # "count_gig"
             /\ response'[r].kind # "exception"
             /\ ~payload[r].force
             /\ \E c \in Colls : CountsRead(r)[c] > 0 )
               => /\ store' = store
                  /\ inserted' = inserted
                  /\ pc'[r] = "done"
                  /\ response'[r].kind = "return"
                  /\ response'[r].body.status = "skipped"
                  /\ response'[r].body.counts = CountsRead(r)

\* C1: a seed request with force=false that reads a non-zero count for any of
\* the three collections makes no insertion, leaves every collection as it is
\* (the empty ones too) and returns status "skipped" with the three counts it
\* read, each count being the size of the collection when it was read.
C1_SkipLeavesStoreUnchanged == [] C1_Skipped /\ [][C1_Step]_vars

C1_Witness ==
    \E r \in Reqs :
        /\ Skipped(r)
        /\ response[r].body.counts["product"] = Len(products)
        /\ response[r].body.counts["gig"] = 0
        /\ store["gig"] = {}

\* C2: a seed request that is neither skipped nor hit by a store failure ends
\* with status "ok" and inserted counts 3, 3, 3, having added exactly 3
\* documents to each collection; at every moment its counters equal the
\* number of documents it has added to each collection.
C2_InsertsThreeEach ==
    \A r \in Reqs :
        /\ \A c \in Colls : Cardinality(DocsBy(r, c)) = inserted[r][KeyOf(c)]
        /\ (pc[r] = "done" /\ ~Skipped(r) /\ ~SeedFailed(r) /\ response[r].kind # "exception")
               => /\ SeedOk(r)
                  /\ response[r].body.inserted = [products |-> 3, services |-> 3, gigs |-> 3]
                  /\ \A c \in Colls : Cardinality(DocsBy(r, c)) = 3

C2_Witness ==
    \E r, o \in Reqs :
        /\ SeedOk(r) /\ ~payload[r].force
        /\ SeedOk(o) /\ payload[o].force
        /\ \A c \in Colls : Cardinality(store[c]) = 6

\* The document the k-th insertion of request r puts into the store.
SeedDoc(r, k) == ("_id" :> << r, k >>) @@ SeedOrder[k].data

\* The number of successful insertions into collection c, all requests together.
InsertedInto(c) ==
    LET F[n \in 0 .. NReq] == IF n = 0 THEN 0 ELSE F[n - 1] + inserted[n][KeyOf(c)]
    IN  F[NReq]

C8_Inv ==
    /\ \A r \in Reqs : \A k \in 1 .. Total(inserted[r]) :
           SeedDoc(r, k) \in store[SeedOrder[k].coll]
    /\ \A c \in Colls : Cardinality(store[c]) = InsertedInto(c)
    /\ \A r \in Reqs :
           SeedFailed(r) =>
               /\ response[r].status_code = 500
               /\ pc[r] = "done"
               /\ Total(inserted[r]) < Len(SeedOrder)

C8_Step ==
    \A r \in Reqs :
        /\ SeedFailed(r) =>
               /\ response'[r] = response[r]
               /\ inserted'[r] = inserted[r]
        /\ (pc[r] = "insert" /\ SeedFailed(r)') => store' = store
        /\ \A k \in DOMAIN inserted[r] : inserted'[r][k] >= inserted[r][k]

\* C8: a seed request inserts in the order 3 products, 3 services, 3 gigs; when
\* its k-th insertion fails it raises HTTPException(500) at once, makes no
\* further insertion, and the k-1 documents it inserted before stay in the
\* store.
C8_FailureKeepsPrefix == [] C8_Inv /\ [][C8_Step]_vars

C8_Witness ==
    \E r \in Reqs :
        /\ SeedFailed(r)
        /\ inserted[r] = [products |-> 3, services |-> 1, gigs |-> 0]
        /\ Cardinality(DocsBy(r, "service")) = 1

\* C9: every store failure inside the seed endpoint or a listing endpoint is
\* turned into an HTTPException by the endpoint's except clause; none leaves
\* the handler as an unhandled exception.
C9_EveryFailureHandled ==
    /\ \A r \in Reqs : response[r].kind # "exception"
    /\ listed.kind # "exception"

\* The requests that went past the test of line 73.
Inserters == {r \in Reqs : pc[r] = "insert" \/ SeedOk(r) \/ SeedFailed(r)}

\* C10 as stated: with force=false only, from empty collections, no collection
\* ever holds more than 3 documents.
C10_AtMostThree == \A c \in Colls : Cardinality(store[c]) <= 3

C10_Step ==
    \A r \in Reqs :
        (pc[r] = "count_gig" /\ pc'[r] = "insert")
            => \A c \in Colls : CountsRead(r)[c] = 0

\* C10, amended: with force=false only, from empty collections, a request
\* goes on to insert only if the three counts it read were all zero, and no
\* collection ever holds more than 3 documents for each request that did.
C10_ThreePerEmptyRead ==
    /\ [] (\A c \in Colls : Cardinality(store[c]) <= 3 * Cardinality(Inserters))
    /\ [][C10_Step]_vars

C10_Witness ==
    /\ Cardinality(Inserters) = 2
    /\ \A r \in Inserters : SeedOk(r)
    /\ \A c \in Colls : Cardinality(store[c]) = 6

\* The boolean filter of an endpoint.
FlagName(endpoint) == IF endpoint = "gigs" THEN "remote" ELSE "curated"

\* The predicate an endpoint builds from its parameters.
QueryFor(endpoint, category, flag, q) ==
    IF endpoint = "products" THEN products_query(category, flag, q)
    ELSE IF endpoint = "services" THEN services_query(category, flag, q)
    ELSE gigs_query(category, flag, q)

\* The keys of the equality constraints a request asks for: a non-empty
\* category, a flag that is not None.
EqKeys(req) ==
    (IF req.category # None /\ req.category[1] # "" THEN {"category"} ELSE {})
        \cup (IF req.flag # None THEN {FlagName(req.endpoint)} ELSE {})

EqValuesAsSupplied(req, pred) ==
    /\ ("category" \in DOMAIN pred) => pred["category"] = req.category[1]
    /\ (FlagName(req.endpoint) \in DOMAIN pred) => pred[FlagName(req.endpoint)] = req.flag[1]

Listed == request.endpoint # "none"

\* C3 as stated: a q supplied as the empty string still yields an OR clause.
C3_EmptyQGetsOrClause ==
    (Listed /\ request.q = Some("")) => "$or" \in DOMAIN query

\* C3, amended: for each listing endpoint a q supplied as the empty string
\* yields no OR clause; the predicate is the one built when q is absent.
C3_EmptyQAsAbsent ==
    (Listed /\ request.q = Some("")) =>
        /\ "$or" \notin DOMAIN query
        /\ DOMAIN query = EqKeys(request)
        /\ query = QueryFor(request.endpoint, request.category, request.flag, None)

C3_Witness ==
    /\ request.endpoint = "services"
    /\ request.q = Some("")
    /\ request.category = Some("Home")
    /\ query = ("category" :> "Home")

\* C4 as stated: with q absent, every supplied filter, a category supplied as
\* the empty string included, has its equality constraint.
C4_EverySuppliedFilter ==
    (Listed /\ request.q = None) =>
        /\ ("category" \in DOMAIN query) <=> (request.category # None)
        /\ (FlagName(request.endpoint) \in DOMAIN query) <=> (request.flag # None)
        /\ EqValuesAsSupplied(request, query)
        /\ "$or" \notin DOMAIN query

\* C4, amended: with q absent, the predicate holds an equality constraint, with
\* the supplied value, for exactly the supplied flag (true or false) and the
\* category supplied as a non-empty string, and no OR clause; a category
\* supplied as the empty string adds no constraint.
C4_ExactlySuppliedFilters ==
    (Listed /\ request.q = None) =>
        /\ DOMAIN query = EqKeys(request)
        /\ EqValuesAsSupplied(request, query)

C4_Witness ==
    /\ request.endpoint = "products"
    /\ request.q = None
    /\ request.category = Some("Home")
    /\ request.flag = Some(FALSE)
    /\ query = ("category" :> "Home") @@ ("curated" :> FALSE)

\* The fields of the OR list of an endpoint, in the order they are added.
OrFields(endpoint) ==
    << "title", "description", "category", "tags" >>
        \o (IF endpoint = "services" THEN << "provider" >>
            ELSE IF endpoint = "gigs" THEN << "company", "location" >>
            ELSE << >>)

\* C5: for a non-empty q the predicate holds one OR list next to the equality
\* constraints; its clauses match q case-insensitively on title, description,
\* category, tags, then provider for services, company and location for gigs,
\* and on nothing else.
C5_OneOrList ==
    (Listed /\ request.q # None /\ request.q[1] # "") =>
        /\ DOMAIN query = EqKeys(request) \cup {"$or"}
        /\ EqValuesAsSupplied(request, query)
        /\ Len(query["$or"]) = Len(OrFields(request.endpoint))
        /\ \A i \in 1 .. Len(query["$or"]) :
               /\ DOMAIN query["$or"][i] = {OrFields(request.endpoint)[i]}
               /\ query["$or"][i][OrFields(request.endpoint)[i]]
                      = ("$regex" :> request.q[1]) @@ ("$options" :> "i")

C5_Witness ==
    /\ request.endpoint = "gigs"
    /\ request.q = Some("x")
    /\ request.category = Some("Photography")
    /\ Len(query["$or"]) = 6
    /\ "category" \in DOMAIN query

\* C6: curated=false (products, services) and remote=false (gigs) put an
\* equality constraint with value false into the predicate, which differs from
\* the predicate built when the flag is absent, where the field is free.
C6_FalseIsAFilter ==
    (Listed /\ request.flag = Some(FALSE)) =>
        /\ FlagName(request.endpoint) \in DOMAIN query
        /\ query[FlagName(request.endpoint)] = FALSE
        /\ FlagName(request.endpoint)
               \notin DOMAIN QueryFor(request.endpoint, request.category, None, request.q)
        /\ query # QueryFor(request.endpoint, request.category, None, request.q)

C6_Witness ==
    /\ request.endpoint = "gigs"
    /\ request.flag = Some(FALSE)
    /\ request.category = None
    /\ request.q = None
    /\ query = ("remote" :> FALSE)

\* The collection an endpoint lists.
CollOf(endpoint) ==
    IF endpoint = "products" THEN "product"
    ELSE IF endpoint = "services" THEN "service" ELSE "gig"

\* C7: no record in a successful listing response has the field _id; each is
\* a document of the listed collection without its identifier.
C7_NoIdentifierReturned ==
    (Listed /\ listed.kind = "return") =>
        \A i \in 1 .. Len(listed.body) :
            /\ "_id" \notin DOMAIN listed.body[i]
            /\ \E d \in store[CollOf(request.endpoint)] :
                   /\ "_id" \in DOMAIN d
                   /\ listed.body[i] = [k \in (DOMAIN d) \ {"_id"} |-> d[k]]

C7_Witness ==
    /\ listed.kind = "return"
    /\ request.endpoint = "products"
    /\ Len(listed.body) = 3
    /\ \A d \in store["product"] : "_id" \in DOMAIN d

====
